---- MODULE Spec2Model ----
(***************************************************************************)
(* A model of yt/utilities/io_handler.py: the BaseIOHandler prefetch queue *)
(* (push / peek), the single-object read with its backup-archive overlay   *)
(* (_read_data_set / _field_in_backup), the fluid selection pipeline       *)
(* (_read_fluid_selection) and the particle selection pipeline             *)
(* (_read_particle_selection and its helpers, with the                     *)
(* BaseParticleIOHandler counting shortcut).                               *)
(*                                                                         *)
(* Python values are modelled as follows.  A dict is a function whose      *)
(* DOMAIN is the set of its keys; a list is a sequence; None is the        *)
(* record NoneVal; a raised exception is a record [kind |-> <its name>].   *)
(* A numpy array is a record [shape, vals]: its shape tuple and its        *)
(* contents in order, the rows of an array a pipeline allocates and the    *)
(* cells of a grid's raw buffer.  np.empty leaves the rows uninitialised:  *)
(* they are the marker Uninit, which the code modelled here never reads.   *)
(***************************************************************************)
EXTENDS Integers, Sequences, FiniteSets, TLC

VARIABLES
    \* ---- BaseIOHandler.queue and the last push / peek ----
    queue,      \* self.queue: defaultdict(dict), key -> (field -> data)
    qfirst,     \* history: (grid, field) -> data of its first successful push
    qlast,      \* history: the last queue call, its outcome, the queue before it
    \* ---- the backup archive and the last read_single ----
    archive,    \* the file at grid.ds.backup_filename (environment)
    id_offset,  \* grid._id_offset of the dataset's grids (environment)
    supplied,   \* whether the concrete handler overrides _read_data
    handles,    \* number of h5py.File handles opened and not closed
    blast,      \* history: the last _read_data_set call and its outcome
    \* ---- _read_fluid_selection ----
    fl_pc,      \* "idle", "iter" (inside the io_iter loop), "done", "error"
    fl_in,      \* the arguments: fields, nodal flags, selector, objects, size
    fl_rv,      \* rv: field -> array
    fl_ind,     \* ind: field -> running write index
    fl_todo,    \* (field, obj) triples io_iter has not streamed yet
    fl_streamed,\* history: the (field, obj, data) triples streamed so far
    \* ---- _read_particle_selection ----
    pc,         \* "idle", "count", "read", "trim", "done", "error"
    p_in,       \* the arguments: handler class, chunks, selector, fields
    ptf,        \* ptf: particle type -> list of field names (insertion order kept)
    field_maps, \* field_maps: concrete field -> list of logical fields
    psize,      \* psize: particle type -> count
    fsize,      \* fsize: logical field -> allocated size
    rv,         \* rv: logical field -> array
    ind,        \* ind: logical field -> running write index
    p_files,    \* DataFiles _read_particle_fields has still to visit
    visitC,     \* history: DataFiles in the order the counting phase visited them
    visitR,     \* history: DataFiles in the order the read phase visited them
    yielded,    \* history: the (field, vals) items yielded so far, in order
    p_fill      \* history: the slice assignments made for the last DataFile

qvars == <<queue, qfirst, qlast>>
bvars == <<archive, id_offset, supplied, handles, blast>>
fvars == <<fl_pc, fl_in, fl_rv, fl_ind, fl_todo, fl_streamed>>
pvars == <<pc, p_in, ptf, field_maps, psize, fsize, rv, ind, p_files,
           visitC, visitR, yielded, p_fill>>
vars == <<qvars, bvars, fvars, pvars>>

\* ------------------------------------------------------------------ bounds
NGrids == 2        \* grid objects of the dataset
MaxHandles == 2    \* leaked handles after which the model stops calling
MaxRefs == 3       \* DataFile references listed by the chunks of one call
MaxFields == 2     \* fields of one particle or fluid request
MaxObjs == 2       \* grid objects in the chunks of one fluid request

\* ------------------------------------------------------------ Python values
NoneVal == [kind |-> "None"]
Value(v) == [kind |-> "value", v |-> v]
Raised(name) == [kind |-> name]
IsError(r) == r.kind \in {"ValueError", "KeyError", "NotImplementedError"}
Uninit == "uninit"

Range(s) == {s[i] : i \in 1..Len(s)}

RECURSIVE SumOver(_, _)
\* sum of f[x] over the finite set S
SumOver(S, f) ==
    IF S = {} THEN 0
    ELSE LET x == CHOOSE y \in S : TRUE IN f[x] + SumOver(S \ {x}, f)

RECURSIVE Concat(_)
\* the concatenation of a sequence of sequences
Concat(ss) == IF ss = <<>> THEN <<>> ELSE Head(ss) \o Concat(Tail(ss))

\* ==================================================================== queue
Grids == 1..NGrids
FieldNames == {"density", "mass"}
QData == {"d1", "d2"}

\* grid.id: the grid's integer id
GridId(grid) == grid
\* The two kinds of dict key the code uses: the integer grid.id and the grid
\* object itself.  A grid object hashes by identity and equals no integer.
IdKey(grid) == <<"id", GridId(grid)>>
ObjKey(grid) == <<"obj", grid>>

\* defaultdict.__getitem__: a missing key is inserted with an empty dict
DefaultGet(q, key) == IF key \in DOMAIN q THEN q ELSE (key :> <<>>) @@ q

\* dict.get(field, None)
DictGet(d, field) == IF field \in DOMAIN d THEN Value(d[field]) ELSE NoneVal

\* peek: self.queue[grid.id].get(field, None)
peek(grid, field) ==
    LET q1 == DefaultGet(queue, IdKey(grid)) IN
    /\ queue' = q1
    /\ qlast' = [op |-> "peek", grid |-> grid, field |-> field,
                 result |-> DictGet(q1[IdKey(grid)], field), before |-> queue]
    /\ UNCHANGED qfirst

\* push: the membership test reads self.queue[grid.id], the store writes
\* self.queue[grid][field]
push(grid, field, data) ==
    IF IdKey(grid) \in DOMAIN queue /\ field \in DOMAIN queue[IdKey(grid)]
    THEN /\ qlast' = [op |-> "push", grid |-> grid, field |-> field,
                      result |-> Raised("ValueError"), before |-> queue,
                      pushed_before |-> <<grid, field>> \in DOMAIN qfirst]
         /\ UNCHANGED <<queue, qfirst>>
    ELSE LET q1 == DefaultGet(queue, ObjKey(grid)) IN
         /\ queue' = [q1 EXCEPT ![ObjKey(grid)] = (field :> data) @@ @]
         /\ qfirst' = IF <<grid, field>> \in DOMAIN qfirst THEN qfirst
                      ELSE (<<grid, field>> :> data) @@ qfirst
         /\ qlast' = [op |-> "push", grid |-> grid, field |-> field,
                      result |-> NoneVal, before |-> queue,
                      pushed_before |-> <<grid, field>> \in DOMAIN qfirst]

InitQueue ==
    /\ queue = <<>>
    /\ qfirst = <<>>
    /\ qlast = [op |-> "none"]

Push ==
    /\ \E grid \in Grids, field \in FieldNames, data \in QData :
           push(grid, field, data)
    /\ UNCHANGED <<bvars, fvars, pvars>>

Peek ==
    /\ \E grid \in Grids, field \in FieldNames : peek(grid, field)
    /\ UNCHANGED <<bvars, fvars, pvars>>

\* ========================================================== backup archive
\* The archive is the HDF5 file at grid.ds.backup_filename:
\*   exists : os.path.exists(backup_filename)
\*   grids  : index -> (field name -> stored dataset), one entry per
\*            sub-group of the top-level group "data"; the sub-group of
\*            index i is named "grid_%010i" % i
Indices == 0..NGrids

DigitChar(d) == <<"0", "1", "2", "3", "4", "5", "6", "7", "8", "9">>[d + 1]

RECURSIVE Digits(_)
\* the decimal digits of n >= 0, most significant first
Digits(n) ==
    IF n < 10 THEN <<DigitChar(n)>> ELSE Digits(n \div 10) \o <<DigitChar(n % 10)>>

RECURSIVE ZeroPad(_, _)
\* s left-padded with zeros to the width w (unchanged when already as wide)
ZeroPad(s, w) == IF Len(s) >= w THEN s ELSE ZeroPad(<<"0">> \o s, w)

PadWidth == 10

\* "%010i" % n: zero-padded to 10 characters, the sign counted in the width
Format010i(n) ==
    IF n >= 0 THEN ZeroPad(Digits(n), PadWidth)
    ELSE <<"-">> \o ZeroPad(Digits(-n), PadWidth - 1)

\* the name formed from grid.id alone, the offset forgotten
GroupNameNoOffset(grid) == <<"grid_">> \o Format010i(GridId(grid))

\* "grid_%010i" % (grid.id - grid._id_offset)
GroupName(grid) == <<"grid_">> \o Format010i(GridId(grid) - id_offset)

\* fhandle["data"]: the sub-groups by name, as the file stores them
DataGroup == [name \in {<<"grid_">> \o Format010i(i) : i \in DOMAIN archive.grids} |->
                 LET i == CHOOSE j \in DOMAIN archive.grids :
                              <<"grid_">> \o Format010i(j) = name
                 IN archive.grids[i]]

\* _field_in_backup: [ret |-> True / False or the exception raised,
\*                    leaked |-> handles opened and not closed]
_field_in_backup(grid, field_name) ==
    IF archive.exists
    THEN \* fhandle = h5py.File(backup_file, mode="r")
         \* g = fhandle["data"]
         IF GroupName(grid) \notin DOMAIN DataGroup
         THEN [ret |-> Raised("KeyError"), leaked |-> 1]       \* g["grid_..."]
         ELSE \* fhandle.close()
              [ret |-> Value(field_name \in DOMAIN DataGroup[GroupName(grid)]),
               leaked |-> 0]
    ELSE [ret |-> Value(FALSE), leaked |-> 0]

\* what the concrete handler's _read_data returns for (grid, field)
PrimaryValue(grid, field) == <<"primary", grid, field>>

\* _read_data: the base class body is "pass"
_read_data(grid, field) ==
    IF supplied THEN Value(PrimaryValue(grid, field)) ELSE NoneVal

\* _read_data_set: [result, leaked, primary |-> whether _read_data was called]
_read_data_set(grid, field) ==
    IF ~archive.exists
    THEN [result |-> _read_data(grid, field), leaked |-> 0, primary |-> TRUE]
    ELSE LET fib == _field_in_backup(grid, field) IN
         IF IsError(fib.ret)
         THEN [result |-> fib.ret, leaked |-> fib.leaked, primary |-> FALSE]
         ELSE IF fib.ret.v
         THEN \* open, grid_group[field][:], close
              [result |-> Value(DataGroup[GroupName(grid)][field]),
               leaked |-> fib.leaked, primary |-> FALSE]
         ELSE [result |-> _read_data(grid, field), leaked |-> fib.leaked,
               primary |-> TRUE]

\* the dataset stored in the archive for (index, field)
Stored(i, field) == <<"backup", i, field>>

Archives ==
    {[exists |-> e, grids |-> [i \in I |-> [f \in F[i] |-> Stored(i, f)]]] :
        e \in BOOLEAN,
        I \in SUBSET Indices, F \in [Indices -> SUBSET FieldNames]}

InitBackup ==
    /\ archive \in Archives
    /\ id_offset \in {0, 1}
    /\ supplied \in BOOLEAN
    /\ handles = 0
    /\ blast = [op |-> "none"]

\* one call of read_single on a grid of the dataset
ReadSingle ==
    /\ handles < MaxHandles
    /\ \E grid \in Grids, field \in FieldNames :
        LET r == _read_data_set(grid, field) IN
        /\ handles' = handles + r.leaked
        /\ blast' = [op |-> "read", grid |-> grid, field |-> field,
                     result |-> r.result, primary |-> r.primary]
    /\ UNCHANGED <<archive, id_offset, supplied>>
    /\ UNCHANGED <<qvars, fvars, pvars>>

\* =========================================================== fluid pipeline
\* data.size: the product of the dimensions
Product(shape) == IF Len(shape) = 1 THEN shape[1]
                  ELSE IF Len(shape) = 2 THEN shape[1] * shape[2]
                  ELSE shape[1] * shape[2] * shape[3]

\* np.empty(shape)
np_empty(shape) == [shape |-> shape, vals |-> [i \in 1..shape[1] |-> Uninit]]

\* self.ds.field_info[field].nodal_flag
FluidFields == {<<"gas", "density">>, <<"mesh", "Ex">>, <<"mesh", "Bxy">>}
nodal_flag(field) ==
    CASE field = <<"gas", "density">> -> <<0, 0, 0>>
      [] field = <<"mesh", "Ex">> -> <<1, 0, 0>>
      [] field = <<"mesh", "Bxy">> -> <<1, 1, 0>>

\* 2 ** sum(nodal_flag)
num_nodes(field) ==
    LET k == nodal_flag(field)[1] + nodal_flag(field)[2] + nodal_flag(field)[3]
    IN 2 ^ k

\* np.any(nodal_flag)
IsNodal(field) == \E i \in 1..3 : nodal_flag(field)[i] # 0

\* the grid dimensions an object's raw buffers have
GridShapes == {<<1, 1>>, <<1, 2>>, <<2, 1>>}

\* Selectors: a GridSelector selects every cell of its grid; the others are
\* spatial predicates over the cells (here over the flattened cell index).
FluidSelectors == {"GridSelector", "RegionAll", "RegionOdd", "RegionNone"}
CellSelected(selector, c) ==
    CASE selector = "GridSelector" -> TRUE
      [] selector = "RegionAll" -> TRUE
      [] selector = "RegionOdd" -> c % 2 = 1
      [] selector = "RegionNone" -> FALSE

\* the cells of a grid of the given dimensions the selector selects, in order
SelectedCells(selector, dims) ==
    SelectSeq([c \in 1..(dims[1] * dims[2]) |-> c],
              LAMBDA c : CellSelected(selector, c))

\* the raw buffer a format holds for (field, obj): one row per cell
RawBuffer(field, obj, dims) ==
    [shape |-> IF IsNodal(field) THEN dims \o <<num_nodes(field)>> ELSE dims,
     size |-> Product(IF IsNodal(field) THEN dims \o <<num_nodes(field)>> ELSE dims),
     vals |-> [c \in 1..(dims[1] * dims[2]) |-> <<field, obj, c>>]]

\* data.copy(): a new array of the buffer's shape and contents
np_copy(data) == [shape |-> data.shape, vals |-> data.vals]

\* obj.select(selector, data, dest, offset): mask-compacts the selected rows of
\* data into dest from row offset on; [dest, count]
obj_select(selector, dims, data, dest, offset) ==
    LET sel == SelectedCells(selector, dims) IN
    [dest |-> [dest EXCEPT !.vals =
                   [i \in 1..Len(dest.vals) |->
                       IF i > offset /\ i <= offset + Len(sel)
                       THEN data.vals[sel[i - offset]] ELSE dest.vals[i]]],
     count |-> Len(sel)]

\* lines 116-127: the allocation of rv and ind
FluidAlloc(fields, size) ==
    [field \in Range(fields) |->
        IF IsNodal(field) THEN np_empty(<<size, num_nodes(field)>>)
        ELSE np_empty(<<size>>)]

\* the fast path taken for any selector, the isinstance test dropped
FastPathAnySelector(selector, field) == ~IsNodal(field)

\* isinstance(selector, GridSelector) and field not in nodal_fields
FastPath(selector, field) == selector = "GridSelector" /\ ~IsNodal(field)

\* the order in which io_iter streams the (field, obj) pairs of a request
RECURSIVE Pairs(_, _, _)
Pairs(fields, nobjs, fieldMajor) ==
    IF fieldMajor
    THEN IF fields = <<>> THEN <<>>
         ELSE [o \in 1..nobjs |-> <<Head(fields), o>>] \o Pairs(Tail(fields), nobjs, TRUE)
    ELSE IF nobjs = 0 THEN <<>>
         ELSE Pairs(fields, nobjs - 1, FALSE) \o [i \in 1..Len(fields) |-> <<fields[i], nobjs>>]

\* the lists of at most n distinct elements of S
DistinctSeqs(S, n) ==
    {q \in UNION {[1..k -> S] : k \in 0..n} :
        \A i, j \in DOMAIN q : i # j => q[i] # q[j]}

InitFluid ==
    /\ fl_pc = "idle"
    /\ fl_in = [op |-> "none"]
    /\ fl_rv = <<>>
    /\ fl_ind = <<>>
    /\ fl_todo = <<>>
    /\ fl_streamed = <<>>

\* the caller-declared size: the number of cells the selector selects in the
\* objects of the chunks
DeclaredSize(selector, objs) ==
    SumOver(DOMAIN objs, [o \in DOMAIN objs |-> Len(SelectedCells(selector, objs[o]))])

\* _read_fluid_selection up to the call of io_iter (lines 116-128).  objs are
\* the grid dimensions of the objects of the chunks; absent are the (field,
\* obj) pairs for which io_iter streams None; io_iter raises when the concrete
\* handler does not supply it.
FluidCall ==
    /\ fl_pc = "idle"
    /\ UNCHANGED <<qvars, bvars, pvars>>
    /\ \E fields \in DistinctSeqs(FluidFields, MaxFields) \ {<<>>},
       selector \in FluidSelectors,
       objs \in UNION {[1..n -> GridShapes] : n \in 1..MaxObjs},
       fieldMajor \in BOOLEAN,
       has_io_iter \in BOOLEAN :
      \E absent \in {{}} \cup {{pr} : pr \in Range(Pairs(fields, Len(objs), TRUE))} :
        LET size == DeclaredSize(selector, objs) IN
        /\ fl_in' = [op |-> "call", fields |-> fields, selector |-> selector,
                     objs |-> objs, size |-> size, absent |-> absent,
                     has_io_iter |-> has_io_iter]
        /\ fl_rv' = FluidAlloc(fields, size)
        /\ fl_ind' = [field \in Range(fields) |-> 0]
        /\ fl_streamed' = <<>>
        /\ IF has_io_iter
           THEN /\ fl_pc' = "iter"
                /\ fl_todo' = Pairs(fields, Len(objs), fieldMajor)
           ELSE /\ fl_pc' = "error"       \* NotImplementedError
                /\ fl_todo' = <<>>

\* one iteration of "for field, obj, data in self.io_iter(chunks, fields)"
FluidIter ==
    /\ fl_pc = "iter"
    /\ fl_todo # <<>>
    /\ LET field == Head(fl_todo)[1]
           obj == Head(fl_todo)[2]
           dims == fl_in.objs[obj]
           isNone == Head(fl_todo) \in fl_in.absent
           data == RawBuffer(field, obj, dims)
       IN
       /\ fl_todo' = Tail(fl_todo)
       /\ fl_streamed' = Append(fl_streamed,
                                [field |-> field, obj |-> obj, isNone |-> isNone])
       /\ IF isNone
          THEN UNCHANGED <<fl_rv, fl_ind>>                      \* continue
          ELSE IF FastPath(fl_in.selector, field)
          THEN /\ fl_ind' = [fl_ind EXCEPT ![field] = @ + data.size]
               /\ fl_rv' = [fl_rv EXCEPT ![field] = np_copy(data)]
          ELSE LET r == obj_select(fl_in.selector, dims, data,
                                   fl_rv[field], fl_ind[field]) IN
               /\ fl_ind' = [fl_ind EXCEPT ![field] = @ + r.count]
               /\ fl_rv' = [fl_rv EXCEPT ![field] = r.dest]
    /\ UNCHANGED <<fl_pc, fl_in>>
    /\ UNCHANGED <<qvars, bvars, pvars>>

\* return rv
FluidReturn ==
    /\ fl_pc = "iter"
    /\ fl_todo = <<>>
    /\ fl_pc' = "done"
    /\ UNCHANGED <<fl_in, fl_rv, fl_ind, fl_todo, fl_streamed>>
    /\ UNCHANGED <<qvars, bvars, pvars>>

\* ======================================================== particle pipeline
\* ---- the dataset (environment) ----
\* self.ds.particle_unions: union name -> its concrete particle types
particle_unions ==
    ("all" :> <<"PartType0", "PartType1">>) @@ ("nbody" :> <<"PartType1">>)

\* the logical fields a request may name
ParticleFields ==
    {<<"PartType0", "mass">>, <<"all", "mass">>, <<"nbody", "mass">>, <<"all", "pos">>}

\* self._vector_fields after __init__: a tuple of names becomes name -> 3
_vector_fields == ("pos" :> 3)
\* self._array_fields = {}
_array_fields == <<>>

\* DataFiles: filename (a string, here its character codes) and start offset
FileA1 == [filename |-> <<97>>, start |-> 1]
FileB0 == [filename |-> <<98>>, start |-> 0]
DataFiles == {FileA1, FileB0}

\* data_file.total_particles[ptype]
total_particles(data_file, ptype) ==
    IF data_file = FileA1 THEN (IF ptype = "PartType0" THEN 2 ELSE 1)
    ELSE (IF ptype = "PartType0" THEN 1 ELSE 2)

\* Selectors: "all_data" reports is_all_data and selects every particle;
\* "sphere" is a spatial predicate (here: the particles of even index)
ParticleSelectors == {"all_data", "sphere"}
is_all_data(selector) == selector = "all_data"
Selected(selector, i) == selector = "all_data" \/ i % 2 = 0

\* the particles of (data_file, ptype) the selector selects, in file order
SelectedParticles(selector, data_file, ptype) ==
    SelectSeq([i \in 1..total_particles(data_file, ptype) |-> i],
              LAMBDA i : Selected(selector, i))

\* selector.count_points(x, y, z, hsml) on the coordinates of (data_file, ptype)
count_points(selector, data_file, ptype) ==
    Len(SelectedParticles(selector, data_file, ptype))

\* ---- the chunks of a request: lists of chunks of objects of DataFiles ----
RECURSIVE BuildChunks(_, _)
\* refs[i] = <<how reference i attaches to the listing so far, its DataFile>>
BuildChunks(refs, acc) ==
    IF refs = <<>> THEN acc
    ELSE LET how == Head(refs)[1]
             df == Head(refs)[2]
             nc == Len(acc)
             no == IF nc = 0 THEN 0 ELSE Len(acc[nc])
         IN BuildChunks(Tail(refs),
                IF nc = 0 \/ how = "chunk" THEN Append(acc, <<<<df>>>>)
                ELSE IF how = "obj" THEN [acc EXCEPT ![nc] = Append(@, <<df>>)]
                ELSE [acc EXCEPT ![nc][no] = Append(@, df)])

\* every listing of at most MaxRefs DataFile references
Listings ==
    {BuildChunks(refs, <<>>) :
        refs \in UNION {[1..n -> {"same", "obj", "chunk"} \X DataFiles] : n \in 0..MaxRefs}}

\* the DataFiles in the order the chunks and their objects list them
Listed(chunks) == Concat(Concat(chunks))

\* ---- sorting ----
RECURSIVE StrLess(_, _)
\* Python's str <: lexicographic by character, a proper prefix first
StrLess(a, b) ==
    IF b = <<>> THEN FALSE
    ELSE IF a = <<>> THEN TRUE
    ELSE IF Head(a) # Head(b) THEN Head(a) < Head(b)
    ELSE StrLess(Tail(a), Tail(b))

\* the key with its components swapped: (x.start, x.filename)
KeyLessByStart(x, y) ==
    x.start < y.start \/ (x.start = y.start /\ StrLess(x.filename, y.filename))

\* key=lambda x: (x.filename, x.start): tuple comparison
KeyLess(x, y) ==
    StrLess(x.filename, y.filename) \/ (x.filename = y.filename /\ x.start < y.start)

RECURSIVE sorted(_)
\* sorted(data_files, key=...)
sorted(S) ==
    IF S = {} THEN <<>>
    ELSE LET m == CHOOSE x \in S : \A y \in S : ~KeyLess(y, x)
         IN <<m>> \o sorted(S \ {m})

RECURSIVE Dedup(_)
\* the distinct elements of a list, in first-occurrence order
Dedup(seq) ==
    IF seq = <<>> THEN <<>>
    ELSE LET init == Dedup(SubSeq(seq, 1, Len(seq) - 1))
             x == seq[Len(seq)]
         IN IF x \in Range(init) THEN init ELSE Append(init, x)

\* the DataFiles de-duplicated but left in listing order, the sort dropped
ListingOrder(chunks) == Dedup(Listed(chunks))

\* BaseParticleIOHandler._sorted_chunk_iterator
_sorted_chunk_iterator(chunks) == sorted(Range(Listed(chunks)))

\* _read_particle_fields, lines 301-305: the DataFiles it visits, in order
_read_particle_fields(chunks) == sorted(Range(Listed(chunks)))

\* ---- union resolution (lines 246-256) ----
\* ptf is [keys: the particle types in insertion order, names: type -> list]
DictAppend(d, key, x) ==
    IF key \in DOMAIN d THEN [d EXCEPT ![key] = Append(@, x)] ELSE (key :> <<x>>) @@ d

\* ptf[pt].append(fname); field_maps[pt, fname].append(field)
AddOne(st, pt, fname, field) ==
    [ptf |-> [keys |-> IF pt \in Range(st.ptf.keys) THEN st.ptf.keys
                       ELSE Append(st.ptf.keys, pt),
              names |-> DictAppend(st.ptf.names, pt, fname)],
     field_maps |-> DictAppend(st.field_maps, <<pt, fname>>, field)]

RECURSIVE AddMembers(_, _, _, _)
AddMembers(st, pts, fname, field) ==
    IF pts = <<>> THEN st
    ELSE AddMembers(AddOne(st, Head(pts), fname, field), Tail(pts), fname, field)

RECURSIVE ResolveFirstMember(_, _)
\* a resolution that fans a union out to its first member only
ResolveFirstMember(fields, st) ==
    IF fields = <<>> THEN st
    ELSE LET field == Head(fields)
             st1 == IF field[1] \in DOMAIN particle_unions
                    THEN AddOne(st, particle_unions[field[1]][1], field[2], field)
                    ELSE AddOne(st, field[1], field[2], field)
         IN ResolveFirstMember(Tail(fields), st1)

RECURSIVE Resolve(_, _)
\* lines 246-256 over the requested fields, in order
Resolve(fields, st) ==
    IF fields = <<>> THEN st
    ELSE LET field == Head(fields)
             st1 == IF field[1] \in DOMAIN particle_unions
                    THEN AddMembers(st, particle_unions[field[1]], field[2], field)
                    ELSE AddOne(st, field[1], field[2], field)
         IN Resolve(Tail(fields), st1)

EmptyMaps == [ptf |-> [keys |-> <<>>, names |-> <<>>], field_maps |-> <<>>]

\* ---- counting (lines 163-208 and 325-339) ----
\* the DataFiles a frontend's _read_particle_coords iterates, in order
CoordsVisits(chunks) == _sorted_chunk_iterator(chunks)

\* _read_particle_coords: a frontend's stream of (ptype, coordinates, hsml);
\* here each entry names the DataFile and type whose coordinates it carries
_read_particle_coords(chunks, ptf_) ==
    LET files == CoordsVisits(chunks) IN
    Concat([k \in 1..Len(files) |->
               [j \in 1..Len(ptf_.keys) |->
                   [ptype |-> ptf_.keys[j], data_file |-> files[k]]]])

\* psize[key] += n on a defaultdict(lambda: 0)
DefaultAdd(d, key, n) ==
    IF key \in DOMAIN d THEN [d EXCEPT ![key] = @ + n] ELSE (key :> n) @@ d

RECURSIVE _count_selected_particles(_, _, _)
\* folded over the stream of _read_particle_coords
_count_selected_particles(psize_, stream, selector) ==
    IF stream = <<>> THEN psize_
    ELSE _count_selected_particles(
             DefaultAdd(psize_, Head(stream).ptype,
                        count_points(selector, Head(stream).data_file, Head(stream).ptype)),
             Tail(stream), selector)

RECURSIVE CountFile(_, _, _)
\* lines 334-335: for ptype in ptf.keys(): psize[ptype] += total_particles[ptype]
CountFile(psize_, data_file, keys) ==
    IF keys = <<>> THEN psize_
    ELSE CountFile(DefaultAdd(psize_, Head(keys), total_particles(data_file, Head(keys))),
                   data_file, Tail(keys))

RECURSIVE CountTotals(_, _, _)
\* lines 333-335: for data_file in self._sorted_chunk_iterator(chunks)
CountTotals(psize_, files, keys) ==
    IF files = <<>> THEN psize_
    ELSE CountTotals(CountFile(psize_, Head(files), keys), Tail(files), keys)

\* getattr(selector, "is_all_data", False) in BaseParticleIOHandler
UsesShortcut(cls, selector) ==
    cls = "BaseParticleIOHandler" /\ is_all_data(selector)

\* _count_particles_chunks of the handler's class
_count_particles_chunks(cls, chunks, ptf_, selector) ==
    IF UsesShortcut(cls, selector)
    THEN CountTotals(<<>>, _sorted_chunk_iterator(chunks), ptf_.keys)
    ELSE _count_selected_particles(<<>>, _read_particle_coords(chunks, ptf_), selector)

\* the DataFiles the counting phase visits, in order
CountVisits(cls, chunks, selector) ==
    IF UsesShortcut(cls, selector) THEN _sorted_chunk_iterator(chunks)
    ELSE CoordsVisits(chunks)

\* ---- allocation (lines 263-283) ----
\* psize.get(pt, 0)
GetOr0(d, key) == IF key \in DOMAIN d THEN d[key] ELSE 0

RECURSIVE SumSeq(_)
SumSeq(q) == IF q = <<>> THEN 0 ELSE Head(q) + SumSeq(Tail(q))

\* an allocation that looks every field type up in psize, unions included
AllocateNoUnions(fields, psize_) ==
    [field \in Range(fields) |-> GetOr0(psize_, field[1])]

\* lines 263-268: fsize[field]
Allocate(fields, psize_) ==
    [field \in Range(fields) |->
        IF field[1] \in DOMAIN particle_unions
        THEN LET pts == particle_unions[field[1]] IN
             SumSeq([k \in 1..Len(pts) |-> GetOr0(psize_, pts[k])])
        ELSE GetOr0(psize_, field[1])]

\* lines 270-281: the shape of rv[field]
FieldShape(field, n) ==
    IF field[2] \in DOMAIN _vector_fields THEN <<n, _vector_fields[field[2]]>>
    ELSE IF field[2] \in DOMAIN _array_fields THEN <<n>> \o _array_fields[field[2]]
    ELSE <<n>>

\* ---- read and fan-out (lines 285-292, 299-310) ----
RECURSIVE ItemsOf(_, _, _, _)
\* the entries a frontend's dict holds for one particle type, in insertion order
ItemsOf(data_file, ptype, names, selector) ==
    IF names = <<>> THEN <<>>
    ELSE LET init == ItemsOf(data_file, ptype, SubSeq(names, 1, Len(names) - 1), selector)
             fname == names[Len(names)]
             sel == SelectedParticles(selector, data_file, ptype)
         IN IF \E k \in 1..Len(init) : init[k].field = <<ptype, fname>> THEN init
            ELSE Append(init,
                        [data_file |-> data_file, field |-> <<ptype, fname>>,
                         vals |-> [k \in 1..Len(sel) |->
                                      <<data_file.filename, data_file.start, ptype,
                                        fname, sel[k]>>]])

\* _read_particle_data_file(data_file, ptf, selector).items(): for every type
\* and name of ptf, the values of the selected particles of the DataFile
_read_particle_data_file(data_file, ptf_, selector) ==
    Concat([j \in 1..Len(ptf_.keys) |->
               ItemsOf(data_file, ptf_.keys[j], ptf_.names[ptf_.keys[j]], selector)])

Min(a, b) == IF a < b THEN a ELSE b

\* numpy's arr[start : start + n, ...] = vals with n = vals.shape[0]: the slice
\* is clipped to the array; vals must have the slice's length or broadcast
\* from length 1, else ValueError.
SliceAssign(arr, start, vals) ==
    LET len == arr.shape[1]
        lo == Min(start, len)
        hi == Min(start + Len(vals), len)
    IN IF hi - lo = Len(vals)
       THEN [ok |-> TRUE,
             arr |-> [arr EXCEPT !.vals = [i \in 1..len |->
                          IF i > lo /\ i <= hi THEN vals[i - lo] ELSE arr.vals[i]]]]
       ELSE IF Len(vals) = 1
       THEN [ok |-> TRUE,
             arr |-> [arr EXCEPT !.vals = [i \in 1..len |->
                          IF i > lo /\ i <= hi THEN vals[1] ELSE arr.vals[i]]]]
       ELSE [ok |-> FALSE, arr |-> arr]

RECURSIVE FanOut(_, _, _, _)
\* lines 287-292 for one yielded (field_r, vals): st is [rv, ind, ok, fills]
FanOut(st, targets, vals, alloc) ==
    IF targets = <<>> \/ ~st.ok THEN st
    ELSE LET field_f == Head(targets)
             my_ind == st.ind[field_f]
             r == SliceAssign(st.rv[field_f], my_ind, vals)
             fill == [field |-> field_f, start |-> my_ind, n |-> Len(vals),
                      alloc |-> alloc[field_f]]
         IN FanOut([rv |-> [st.rv EXCEPT ![field_f] = r.arr],
                    ind |-> IF r.ok THEN [st.ind EXCEPT ![field_f] = @ + Len(vals)]
                            ELSE st.ind,
                    ok |-> r.ok,
                    fills |-> st.fills \cup {fill}],
                   Tail(targets), vals, alloc)

\* field_maps[field_r] on a defaultdict(list)
MapsOf(field_maps_, field_r) ==
    IF field_r \in DOMAIN field_maps_ THEN field_maps_[field_r] ELSE <<>>

RECURSIVE FanOutItems(_, _, _, _)
\* the loop of lines 285-292 over the items of one DataFile
FanOutItems(st, items, field_maps_, alloc) ==
    IF items = <<>> \/ ~st.ok THEN st
    ELSE FanOutItems(FanOut(st, MapsOf(field_maps_, Head(items).field),
                            Head(items).vals, alloc),
                     Tail(items), field_maps_, alloc)

\* ---- trim (lines 295-296) ----
\* rv[field_f][: ind[field_f]]
Trim(arr, n) ==
    LET m == Min(n, arr.shape[1]) IN
    [shape |-> <<m>> \o Tail(arr.shape), vals |-> SubSeq(arr.vals, 1, m)]


\* ---- the pipeline as the handler runs it ----
\* lines 282-283: rv[field] = np.empty(shape), ind[field] = 0
EmptyArrays(fields, fsize_) ==
    [field \in Range(fields) |-> np_empty(FieldShape(field, fsize_[field]))]

\* one iteration of the loop of _read_particle_fields with the fan-out of the
\* items it yields
ReadFileStep(st, data_file, ptf_, field_maps_, selector, alloc) ==
    FanOutItems([st EXCEPT !.fills = {}],
                _read_particle_data_file(data_file, ptf_, selector),
                field_maps_, alloc)

RECURSIVE ReadFiles(_, _, _, _, _, _)
ReadFiles(st, files, ptf_, field_maps_, selector, alloc) ==
    IF files = <<>> \/ ~st.ok THEN st
    ELSE ReadFiles(ReadFileStep(st, Head(files), ptf_, field_maps_, selector, alloc),
                   Tail(files), ptf_, field_maps_, selector, alloc)

\* _read_particle_selection of a concrete handler, start to return:
\* [ok, rv], ok false when a slice assignment raised
RunSelection(cls, chunks, selector, fields) ==
    LET maps == Resolve(fields, EmptyMaps)
        ps == _count_particles_chunks(cls, chunks, maps.ptf, selector)
        fs == Allocate(fields, ps)
        st0 == [rv |-> EmptyArrays(fields, fs),
                ind |-> [field \in Range(fields) |-> 0], ok |-> TRUE, fills |-> {}]
        st == ReadFiles(st0, _read_particle_fields(chunks), maps.ptf,
                        maps.field_maps, selector, fs)
    IN [ok |-> st.ok,
        rv |-> [field \in Range(fields) |-> Trim(st.rv[field], st.ind[field])]]

InitParticle ==
    /\ pc = "idle" /\ p_in = [op |-> "none"]
    /\ ptf = EmptyMaps.ptf /\ field_maps = <<>>
    /\ psize = <<>> /\ fsize = <<>> /\ rv = <<>> /\ ind = <<>>
    /\ p_files = <<>> /\ visitC = <<>> /\ visitR = <<>>
    /\ yielded = <<>> /\ p_fill = {}

\* lines 227-256: the call and the union resolution.  has_coords and
\* has_data_file say whether the concrete handler supplies
\* _read_particle_coords and _read_particle_data_file.
ParticleCall ==
    /\ pc = "idle"
    /\ \E cls \in {"BaseIOHandler", "BaseParticleIOHandler"},
          chunks \in Listings,
          selector \in ParticleSelectors,
          fields \in DistinctSeqs(ParticleFields, MaxFields),
          has_coords \in BOOLEAN, has_data_file \in BOOLEAN :
         LET maps == Resolve(fields, EmptyMaps) IN
         /\ p_in' = [op |-> "call", cls |-> cls, chunks |-> chunks,
                     selector |-> selector, fields |-> fields,
                     has_coords |-> has_coords, has_data_file |-> has_data_file]
         /\ ptf' = maps.ptf
         /\ field_maps' = maps.field_maps
         /\ fsize' = [field \in Range(fields) |-> 0]
    /\ pc' = "count"
    /\ UNCHANGED <<psize, rv, ind, p_files, visitC, visitR, yielded, p_fill>>
    /\ UNCHANGED <<qvars, bvars, fvars>>

\* lines 259-283: counting and allocation
ParticleCount ==
    /\ pc = "count"
    /\ IF ~UsesShortcut(p_in.cls, p_in.selector) /\ ~p_in.has_coords
       THEN /\ pc' = "error"                    \* NotImplementedError, line 217
            /\ UNCHANGED <<psize, fsize, rv, ind, p_files, visitC>>
       ELSE LET ps == _count_particles_chunks(p_in.cls, p_in.chunks, ptf, p_in.selector)
                fs == Allocate(p_in.fields, ps)
            IN /\ psize' = ps
               /\ fsize' = fs
               /\ rv' = EmptyArrays(p_in.fields, fs)
               /\ ind' = [field \in Range(p_in.fields) |-> 0]
               /\ visitC' = CountVisits(p_in.cls, p_in.chunks, p_in.selector)
               /\ p_files' = _read_particle_fields(p_in.chunks)
               /\ pc' = "read"
    /\ UNCHANGED <<p_in, ptf, field_maps, visitR, yielded, p_fill>>
    /\ UNCHANGED <<qvars, bvars, fvars>>

\* lines 285-292 for the next DataFile of _read_particle_fields
ParticleRead ==
    /\ pc = "read"
    /\ p_files # <<>>
    /\ p_files' = Tail(p_files)
    /\ visitR' = Append(visitR, Head(p_files))
    /\ IF ~p_in.has_data_file
       THEN /\ pc' = "error"                    \* NotImplementedError, line 222
            /\ UNCHANGED <<rv, ind, yielded, p_fill>>
       ELSE LET st == ReadFileStep([rv |-> rv, ind |-> ind, ok |-> TRUE, fills |-> {}],
                                   Head(p_files), ptf, field_maps, p_in.selector, fsize)
            IN /\ rv' = st.rv
               /\ ind' = st.ind
               /\ p_fill' = st.fills
               /\ yielded' = yielded \o
                      _read_particle_data_file(Head(p_files), ptf, p_in.selector)
               /\ pc' = IF st.ok THEN "read" ELSE "error"     \* ValueError
    /\ UNCHANGED <<p_in, ptf, field_maps, psize, fsize, visitC>>
    /\ UNCHANGED <<qvars, bvars, fvars>>

\* lines 293-297: the trim and the return
ParticleTrim ==
    /\ pc = "read"
    /\ p_files = <<>>
    /\ rv' = [field \in Range(p_in.fields) |-> Trim(rv[field], ind[field])]
    /\ pc' = "done"
    /\ UNCHANGED <<p_in, ptf, field_maps, psize, fsize, ind, p_files, visitC, visitR,
                   yielded, p_fill>>
    /\ UNCHANGED <<qvars, bvars, fvars>>

\* ============================================================ specifications
InitAll ==
    /\ InitQueue
    /\ archive = [exists |-> FALSE, grids |-> <<>>]
    /\ id_offset = 0 /\ supplied = TRUE /\ handles = 0 /\ blast = [op |-> "none"]
    /\ InitFluid
    /\ InitParticle

NextQueue == Push \/ Peek
SpecQueue == InitAll /\ [][NextQueue]_vars

InitB == InitQueue /\ InitBackup /\ InitFluid /\ InitParticle
NextBackup == ReadSingle
SpecBackup == InitB /\ [][NextBackup]_vars

NextFluid == FluidCall \/ FluidIter \/ FluidReturn
SpecFluid == InitAll /\ [][NextFluid]_vars

NextParticle == ParticleCall \/ ParticleCount \/ ParticleRead \/ ParticleTrim
SpecParticle == InitAll /\ [][NextParticle]_vars

\* ==================================================================== claims

\* ---- the prefetch queue (SpecQueue) ----

\* C1: once push(object, field, d1) has succeeded, a later push for the same
\* (object, field) fails with an error and leaves the queue unchanged, and a
\* later peek(object, field) returns d1.
C1_SecondPushFails ==
    /\ (qlast.op = "push" /\ qlast.pushed_before) =>
           (IsError(qlast.result) /\ queue = qlast.before)
    /\ (qlast.op = "peek" /\ <<qlast.grid, qlast.field>> \in DOMAIN qfirst) =>
           qlast.result = Value(qfirst[<<qlast.grid, qlast.field>>])

\* ---- read_single and the backup archive (SpecBackup) ----

\* the archive file exists and defines the field for the grid's index
ArchiveDefines(grid, field) ==
    LET i == GridId(grid) - id_offset IN
    /\ archive.exists
    /\ i \in DOMAIN archive.grids
    /\ field \in DOMAIN archive.grids[i]

\* C5: read_single returns the archive's stored value, without calling the
\* primary read primitive, whenever the archive exists and defines the field
\* for the object; when the archive file does not exist it returns exactly
\* what the primary read primitive returns.
C5_OverlayWins ==
    blast.op = "read" =>
        /\ ArchiveDefines(blast.grid, blast.field) =>
               /\ blast.result =
                      Value(Stored(GridId(blast.grid) - id_offset, blast.field))
               /\ ~blast.primary
        /\ ~archive.exists =>
               /\ blast.primary
               /\ blast.result = _read_data(blast.grid, blast.field)

\* C5's case: an archive that defines the field was read for a grid whose id
\* differs from its index.
C5_Witness ==
    /\ blast.op = "read"
    /\ id_offset = 1
    /\ ArchiveDefines(blast.grid, blast.field)
    /\ blast.result.kind = "value"
    /\ ~blast.primary

\* C6: when the archive file exists but holds no entry for (object, field),
\* whether the object's group or only the field is missing, read_single raises
\* no error and returns what the primary read primitive returns.
C6_MissingEntryFallsBack ==
    (blast.op = "read" /\ archive.exists /\ ~ArchiveDefines(blast.grid, blast.field)) =>
        /\ ~IsError(blast.result)
        /\ blast.result = _read_data(blast.grid, blast.field)

\* C9: between calls of read_single no backup-archive handle is open.
C9_NoOpenHandles == handles = 0

\* ---- the fluid pipeline (SpecFluid) ----

\* the non-None buffers streamed so far for a field
StreamedBuffers(field) ==
    SelectSeq(fl_streamed, LAMBDA t : t.field = field /\ ~t.isNone)

\* C3 as stated: every returned array's first dimension is the declared size.
C3_DeclaredSizeAlways ==
    fl_pc = "done" =>
        \A field \in Range(fl_in.fields) :
            /\ fl_rv[field].shape[1] = fl_in.size
            /\ Len(fl_rv[field].vals) = fl_in.size

\* C3 (amended): every returned array's first dimension is the declared size,
\* except for a non-nodal field under a GridSelector for which io_iter streamed
\* a non-None buffer: that array is a copy of the last such buffer.
C3_DeclaredSizeOffFastPath ==
    fl_pc = "done" =>
        \A field \in Range(fl_in.fields) :
            LET bufs == StreamedBuffers(field) IN
            IF fl_in.selector = "GridSelector" /\ ~IsNodal(field) /\ bufs # <<>>
            THEN LET last == bufs[Len(bufs)] IN
                 /\ fl_rv[field].shape = fl_in.objs[last.obj]
                 /\ fl_rv[field].vals =
                        RawBuffer(field, last.obj, fl_in.objs[last.obj]).vals
            ELSE /\ fl_rv[field].shape[1] = fl_in.size
                 /\ Len(fl_rv[field].vals) = fl_in.size
                 /\ IsNodal(field) => fl_rv[field].shape[2] = num_nodes(field)

\* C3's case: a finished GridSelector request over two objects that streamed
\* both buffers of a nodal field (mask-compacted) and of a non-nodal field
\* (fast path), the latter ending shorter than the declared size.
C3_Witness ==
    /\ fl_pc = "done"
    /\ fl_in.selector = "GridSelector"
    /\ Len(fl_in.objs) = 2
    /\ \E f, g \in Range(fl_in.fields) :
           /\ IsNodal(f) /\ ~IsNodal(g)
           /\ Len(StreamedBuffers(f)) = 2 /\ Len(StreamedBuffers(g)) = 2
           /\ fl_rv[f].shape[1] = fl_in.size
           /\ fl_rv[g].shape[1] < fl_in.size

\* ---- the particle pipeline (SpecParticle) ----

\* the concrete particle types a logical field draws on
MemberTypes(field) ==
    IF field[1] \in DOMAIN particle_unions THEN Range(particle_unions[field[1]])
    ELSE {field[1]}

\* the DataFiles of the request's chunks
RequestFiles == Range(Listed(p_in.chunks))

\* the selected particles that contribute to a logical field
Contributing(field) ==
    UNION {{<<df, pt, i>> : i \in {k \in 1..total_particles(df, pt) :
                                       Selected(p_in.selector, k)}} :
              df \in RequestFiles, pt \in MemberTypes(field)}

\* a handler that supplies both particle primitives
Concrete == p_in.op = "call" /\ p_in.has_coords /\ p_in.has_data_file

\* x comes before y in (filename, start) order
Before(x, y) ==
    \/ StrLess(x.filename, y.filename)
    \/ x.filename = y.filename /\ x.start < y.start

\* the list holds every DataFile of the request once, in ascending order
AscendingOnce(visits) ==
    /\ Range(visits) = RequestFiles
    /\ \A i, j \in 1..Len(visits) : i < j => Before(visits[i], visits[j])

\* C2: after the trim every logical field's array has exactly as many rows as
\* selected particles contribute to it (over its concrete types and all
\* DataFiles), a field without selected particles ending with 0 rows, and a
\* handler that supplies the primitives never ends in an error.
C2_ExactLength ==
    /\ Concrete => pc # "error"
    /\ pc = "done" =>
           \A field \in Range(p_in.fields) :
               /\ rv[field].shape[1] = Cardinality(Contributing(field))
               /\ Len(rv[field].vals) = Cardinality(Contributing(field))

\* C2's case: a finished selection in which the field of a type with particles
\* on disk but none selected ends empty, and a union field ends with rows.
C2_Witness ==
    /\ pc = "done"
    /\ RequestFiles = {FileB0}
    /\ p_in.selector = "sphere"
    /\ \E f, g \in Range(p_in.fields) :
           /\ rv[f].shape = <<0>> /\ f = <<"PartType0", "mass">>
           /\ rv[g].shape[1] > 0 /\ g[1] = "all"

\* the values yielded for the member types of a union field, in yield order
YieldedFor(field) ==
    Concat([k \in 1..Len(yielded) |->
               IF yielded[k].field[2] = field[2] /\ yielded[k].field[1] \in MemberTypes(field)
               THEN yielded[k].vals ELSE <<>>])

\* the DataFiles the yielded items came from, in yield order, are ascending
YieldedAscending ==
    \A i, j \in 1..Len(yielded) :
        i < j => \/ yielded[i].data_file = yielded[j].data_file
                 \/ Before(yielded[i].data_file, yielded[j].data_file)

\* C4: for a requested union field (U, name) the pipeline fetches (T, name)
\* for every concrete type T of U, and the returned array is the concatenation
\* of the values yielded for those fields, DataFile by DataFile in ascending
\* (filename, start) order.
C4_UnionConcatenation ==
    /\ pc # "idle" =>
           \A field \in Range(p_in.fields) :
               field[1] \in DOMAIN particle_unions =>
                   \A pt \in MemberTypes(field) :
                       /\ pt \in Range(ptf.keys)
                       /\ field[2] \in Range(ptf.names[pt])
    /\ pc = "done" =>
           /\ YieldedAscending
           /\ \A field \in Range(p_in.fields) :
                  field[1] \in DOMAIN particle_unions =>
                      rv[field].vals = YieldedFor(field)

\* C4's case: a finished selection of ("all", "mass") listing FileB0 before
\* FileA1, with rows of both member types from both DataFiles.
C4_Witness ==
    /\ pc = "done"
    /\ Len(Listed(p_in.chunks)) >= 2
    /\ Listed(p_in.chunks)[1] = FileB0
    /\ RequestFiles = DataFiles
    /\ <<"all", "mass">> \in Range(p_in.fields)
    /\ Len(rv[<<"all", "mass">>].vals) = 6

\* a fixed listing of a set of DataFiles: one chunk of one object
RECURSIVE SetToSeq(_)
SetToSeq(S) ==
    IF S = {} THEN <<>>
    ELSE LET x == CHOOSE y \in S : TRUE IN <<x>> \o SetToSeq(S \ {x})

OneChunk(S) == IF S = {} THEN <<>> ELSE <<<<SetToSeq(S)>>>>

C10_FillWithinAllocation ==
    \A fill \in p_fill :
        /\ fill.start + fill.n <= fill.alloc
        /\ fill.alloc = fsize[fill.field]
        /\ fill.alloc = rv[fill.field].shape[1] \/ pc = "done"

\* C10's case: the whole-dataset shortcut counted, two unions share
\* PartType1, and a fill of the second DataFile starts past row 0.
C10_Witness ==
    /\ pc = "read"
    /\ UsesShortcut(p_in.cls, p_in.selector)
    /\ p_in.fields = <<<<"all", "mass">>, <<"nbody", "mass">>>>
    /\ Len(visitR) = 2
    /\ \E f1, f2 \in p_fill :
           /\ f1.field = <<"all", "mass">> /\ f1.start > 0 /\ f1.n > 0
           /\ f2.field = <<"nbody", "mass">> /\ f2.start > 0 /\ f2.n > 0
           /\ f2.start + f2.n = f2.alloc

\* ---- the extension points (SpecBackup) ----

\* C7: a call that reaches an extension point the concrete handler does not
\* supply ends in a fatal error, never in a normal return: _read_data behind
\* read_single, io_iter, _read_particle_coords and _read_particle_data_file.
C7_UnimplementedIsFatal ==
    /\ (blast.op = "read" /\ blast.primary /\ ~supplied) => IsError(blast.result)
    /\ (fl_in.op = "call" /\ ~fl_in.has_io_iter) => fl_pc = "error"
    /\ (p_in.op = "call" /\ pc # "count" /\ ~p_in.has_coords
            /\ ~UsesShortcut(p_in.cls, p_in.selector)) => pc = "error"
    /\ (p_in.op = "call" /\ visitR # <<>> /\ ~p_in.has_data_file) => pc = "error"

====
